---- MODULE Spec2Model ----
(***************************************************************************)
(* Tab Manager background service worker (class TabManager and the         *)
(* chrome.runtime.onMessage listener).                                     *)
(*                                                                         *)
(* Every async method is a handler that runs from one await to the next    *)
(* without interruption (JavaScript run-to-completion).  A step of a       *)
(* handler resumes it after the call it awaited, runs its synchronous code *)
(* and issues the next chrome.* call; the call takes effect when it is     *)
(* issued and its result is kept in the handler until it resumes.  Other   *)
(* handlers and browser events run between two steps of a handler.         *)
(* favIconUrl is carried through unchanged by the code and is left out.    *)
(***************************************************************************)
EXTENDS Integers, Sequences, FiniteSets, TLC

VARIABLES
  tabs,            \* Tab Registry: open tabId -> [url, title, active, pinned, lastAccessed]
  local,           \* chrome.storage.local, keys suspendedTab_<id>: tabId -> tabData
  localSessions,   \* chrome.storage.local, key savedSessions: <<>> (absent) or <<list>>
  syncSettings,    \* chrome.storage.sync, key tabManagerSettings: <<>> (absent) or <<settings>>
  suspendedTabs,   \* this.suspendedTabs
  tabActivity,     \* this.tabActivity: tabId -> timestamp
  settings,        \* this.settings
  sessions,        \* this.sessions
  tabListeners,    \* setupTabListeners has run
  alarmListeners,  \* number of chrome.alarms.onAlarm listeners registered
  now,             \* Date.now()
  hs,              \* the async calls in flight, one record per slot
  calls,           \* history: the calls started since the last browser event
  pre              \* history: the state when the last call started

vars == <<tabs, local, localSessions, syncSettings, suspendedTabs, tabActivity,
          settings, sessions, tabListeners, alarmListeners, now, hs, calls, pre>>

(* ------------------------------ bounds -------------------------------- *)
NumTabs == 2
NumHandlers == 2
MaxTicks == 2
SeqTicks == 1
MaxSaves == 51
MsgSaves == 2
MaxDeletes == 1
MaxListeners == 2

(* ------------------------- program constants -------------------------- *)
DefaultSuspendAfterMinutes == 15
DefaultMaxTabsBeforeWarning == 20
MaxSessions == 50
MsPerMinute == 60 * 1000
StartTime == 20 * MsPerMinute

TabIds == 1..NumTabs
Handlers == 1..NumHandlers

(* ------------------------------- URLs --------------------------------- *)
(* A URL is a sequence of tokens; <<>> is the missing URL.                 *)
ChromeScheme == "chrome://"
ExtensionScheme == "chrome-extension://"
UrlA == <<"http://", "a">>
UrlB == <<"file://", "b">>
UrlChrome == <<ChromeScheme, "settings">>
SuspendedUrl == <<ExtensionScheme, "suspended.html">>

StartsWith(u, p) == Len(u) >= Len(p) /\ SubSeq(u, 1, Len(p)) = p

StartsWithHttp(u) == Len(u) >= 1 /\ u[1] \in {"http://", "https://"}

EncTok(s) ==
  CASE s = "http://" -> "http%3A%2F%2F"
    [] s = "https://" -> "https%3A%2F%2F"
    [] s = "file://" -> "file%3A%2F%2F"
    [] s = "chrome://" -> "chrome%3A%2F%2F"
    [] s = "Page a" -> "Page%20a"
    [] s = "Page b" -> "Page%20b"
    [] OTHER -> s

DecTok(s) ==
  CASE s = "http%3A%2F%2F" -> "http://"
    [] s = "https%3A%2F%2F" -> "https://"
    [] s = "file%3A%2F%2F" -> "file://"
    [] s = "chrome%3A%2F%2F" -> "chrome://"
    [] s = "Page%20a" -> "Page a"
    [] s = "Page%20b" -> "Page b"
    [] OTHER -> s

encodeURIComponent(u) == [i \in 1..Len(u) |-> EncTok(u[i])]

decodeURIComponent(u) == [i \in 1..Len(u) |-> DecTok(u[i])]

PlaceholderUrl(url, title) ==
  SuspendedUrl \o <<"?url=">> \o encodeURIComponent(url)
               \o <<"&title=">> \o encodeURIComponent(<<title>>)

IsPlaceholder(u) == StartsWith(u, SuspendedUrl)

\* new URL(tab.url).searchParams.get('url'); <<>> when there is none
SearchParamUrl(u) ==
  LET from == {i \in 1..Len(u) : u[i] = "?url="}
      to == {j \in 1..Len(u) : u[j] = "&title="}
  IN IF from = {} THEN <<>>
     ELSE LET i == CHOOSE k \in from : \A m \in from : k <= m
              ends == {j \in to : j > i}
              j == IF ends = {} THEN Len(u) + 1
                   ELSE CHOOSE k \in ends : \A m \in ends : k <= m
          IN decodeURIComponent(SubSeq(u, i + 1, j - 1))

\* mutant: the test without its chrome-extension:// case
NotSuspendable_NoExtension(u) == u = <<>> \/ StartsWith(u, <<ChromeScheme>>)

\* the test of suspendTab: no URL, chrome:// or chrome-extension://
NotSuspendable(u) ==
  \/ u = <<>>
  \/ StartsWith(u, <<ChromeScheme>>)
  \/ StartsWith(u, <<ExtensionScheme>>)

\* the test of suspendInactiveTabs
ScanSkipsUrl(u) ==
  u # <<>> /\ (StartsWith(u, <<ChromeScheme>>) \/ StartsWith(u, <<ExtensionScheme>>))

\* the title the browser shows for a page
TitleOf(u) ==
  CASE u = UrlA -> "Page a"
    [] u = UrlB -> "Page b"
    [] IsPlaceholder(u) -> "Tab Suspended"
    [] OTHER -> ""

(* ------------------------------ handlers ------------------------------ *)
IdleH == [op |-> "idle", pc |-> "-", id |-> 0, url |-> <<>>, tabId |-> 0,
          tab |-> <<>>, data |-> <<>>, ok |-> TRUE, snap |-> <<>>,
          queue |-> <<>>, now |-> 0, thr |-> 0]

Busy(h) == hs[h].op # "idle"

AllIdle == \A h \in Handlers : ~Busy(h)

\* the slot a newly started call takes
FreeSlot == CHOOSE h \in Handlers : ~Busy(h) /\ \A g \in Handlers : g < h => Busy(g)

HasFree == \E h \in Handlers : ~Busy(h)

\* the ids of a tabs.query({}) result, in tab order
RECURSIVE IdSeq(_)
IdSeq(S) ==
  IF S = {} THEN <<>>
  ELSE LET m == CHOOSE x \in S : \A y \in S : x <= y
       IN <<m>> \o IdSeq(S \ {m})

\* chrome.tabs.query({}) as restoreTab reads it: the url of every open tab
QueryUrls == [t \in DOMAIN tabs |-> [url |-> tabs[t].url]]

\* chrome.tabs.get(tabId): <<tab>>, or <<>> when the call rejects
\* (suspendTab reads only url and title of it)
TabsGet(t) ==
  IF t \in DOMAIN tabs THEN <<[url |-> tabs[t].url, title |-> tabs[t].title]>> ELSE <<>>

\* chrome.storage.local.get of suspendedTab_<tabId>: <<data>> or <<>>
GetTabData(t) == IF t \in DOMAIN local THEN <<local[t]>> ELSE <<>>

\* chrome.tabs.update(tabId, {url}): the registry after the call
TabsUpdate(t, u) ==
  IF t \in DOMAIN tabs
  THEN [tabs EXCEPT ![t].url = u, ![t].title = TitleOf(u)]
  ELSE tabs

Remove(f, t) == [k \in DOMAIN f \ {t} |-> f[k]]

Put(f, t, v) == [k \in DOMAIN f \cup {t} |-> IF k = t THEN v ELSE f[k]]

othervars == <<localSessions, syncSettings, settings, sessions, tabListeners,
               alarmListeners, now>>

(* ------------------------- suspendInactiveTabs ------------------------ *)
\* this.tabActivity.get(tab.id) || tab.lastAccessed || 0
LastActive(act, tab, t) ==
  IF t \in DOMAIN act /\ act[t] # 0 THEN act[t] ELSE tab.lastAccessed

\* mutant: the threshold itself counts as too long
InactiveTooLong_AtThreshold(inactiveTime, suspendThreshold) ==
  inactiveTime >= suspendThreshold

InactiveTooLong(inactiveTime, suspendThreshold) == inactiveTime > suspendThreshold

\* the loop body's decision for one tab of the snapshot
ScanPicks(h, t, sus, act) ==
  LET tab == h.snap[t]
  IN /\ t \notin sus
     /\ ~tab.active
     /\ ~tab.pinned
     /\ ~ScanSkipsUrl(tab.url)
     /\ InactiveTooLong(h.now - LastActive(act, tab, t), h.thr)

\* the for loop from the tabs left in h.queue up to the next
\* await this.suspendTab(tab.id), whose first call is chrome.tabs.get
ScanLoop(h, sus, act, tbs) ==
  LET q == h.queue
      hits == {i \in 1..Len(q) : ScanPicks(h, q[i], sus, act)}
  IN IF hits = {} THEN IdleH
     ELSE LET i == CHOOSE k \in hits : \A m \in hits : k <= m
          IN [h EXCEPT !.pc = "s_get", !.tabId = q[i], !.data = <<>>, !.ok = TRUE,
                       !.tab = IF q[i] \in DOMAIN tbs
                               THEN <<[url |-> tbs[q[i]].url, title |-> tbs[q[i]].title]>>
                               ELSE <<>>,
                       !.queue = SubSeq(q, i + 1, Len(q))]

\* the return of suspendTab: to the scan's loop, or the end of the message's call
Return(h, sus, act, tbs) ==
  IF hs[h].op = "scan" THEN ScanLoop(hs[h], sus, act, tbs) ELSE IdleH

(* ------------------------------ suspendTab ---------------------------- *)
\* the suspendTab message: suspendTab runs up to await chrome.tabs.get
MsgSuspendTab(t) ==
  /\ HasFree
  /\ hs' = [hs EXCEPT ![FreeSlot] =
              [IdleH EXCEPT !.op = "suspend", !.pc = "s_get", !.id = t,
                            !.tabId = t, !.tab = TabsGet(t)]]
  /\ UNCHANGED <<tabs, local, suspendedTabs, tabActivity, othervars>>

\* after chrome.tabs.get: the URL test, tabData, chrome.tabs.update
SuspendAfterGet(h) ==
  /\ hs[h].pc = "s_get"
  /\ LET c == hs[h]
         t == c.tabId
     IN IF c.tab = <<>> \/ NotSuspendable(c.tab[1].url)
        THEN /\ hs' = [hs EXCEPT ![h] = Return(h, suspendedTabs, tabActivity, tabs)]
             /\ UNCHANGED tabs
        ELSE /\ tabs' = TabsUpdate(t, PlaceholderUrl(c.tab[1].url, c.tab[1].title))
             /\ hs' = [hs EXCEPT ![h] =
                         [c EXCEPT !.pc = "s_update",
                                   !.ok = (t \in DOMAIN tabs),
                                   !.data = <<[id |-> t, url |-> c.tab[1].url,
                                               title |-> c.tab[1].title,
                                               suspendedAt |-> now]>>]]
  /\ UNCHANGED <<local, suspendedTabs, tabActivity, othervars>>

\* after chrome.tabs.update: suspendedTabs.add, saveTabData
SuspendAfterUpdate(h, stored) ==
  /\ hs[h].pc = "s_update"
  /\ LET c == hs[h]
         t == c.tabId
     IN IF ~c.ok
        THEN /\ hs' = [hs EXCEPT ![h] = Return(h, suspendedTabs, tabActivity, tabs)]
             /\ UNCHANGED <<suspendedTabs, local>>
        ELSE /\ suspendedTabs' = suspendedTabs \cup {t}
             /\ local' = IF stored THEN Put(local, t, c.data[1]) ELSE local
             /\ hs' = [hs EXCEPT ![h] = [c EXCEPT !.pc = "s_save", !.ok = stored]]
  /\ UNCHANGED <<tabs, tabActivity, othervars>>

\* after saveTabData: tabActivity.delete
SuspendAfterSave(h) ==
  /\ hs[h].pc = "s_save"
  /\ LET c == hs[h]
         act == IF c.ok THEN Remove(tabActivity, c.tabId) ELSE tabActivity
     IN /\ tabActivity' = act
        /\ hs' = [hs EXCEPT ![h] = Return(h, suspendedTabs, act, tabs)]
  /\ UNCHANGED <<tabs, local, suspendedTabs, othervars>>

(* ------------------------------ restoreTab ---------------------------- *)
\* restoreTab up to its first await: chrome.tabs.query for an http URL,
\* getTabData otherwise (message.tabId || message.url: id = 0 means a URL)
RestoreStart(id, url) ==
  IF id = 0 /\ StartsWithHttp(url)
  THEN [IdleH EXCEPT !.op = "restore", !.pc = "r_query1", !.url = url,
                     !.snap = QueryUrls, !.queue = IdSeq(DOMAIN tabs)]
  ELSE [IdleH EXCEPT !.op = "restore", !.pc = "r_get", !.id = id, !.url = url,
                     !.tabId = id,
                     !.data = IF id # 0 THEN GetTabData(id) ELSE <<>>]

\* the restoreTab message with a tabId
MsgRestoreTabId(t) ==
  /\ HasFree
  /\ hs' = [hs EXCEPT ![FreeSlot] = RestoreStart(t, <<>>)]
  /\ UNCHANGED <<tabs, local, suspendedTabs, tabActivity, othervars>>

\* the restoreTab message with a url
MsgRestoreTabUrl(u) ==
  /\ HasFree
  /\ hs' = [hs EXCEPT ![FreeSlot] = RestoreStart(0, u)]
  /\ UNCHANGED <<tabs, local, suspendedTabs, tabActivity, othervars>>

\* the fallback's chrome.tabs.query
FallbackQuery(c) ==
  [c EXCEPT !.pc = "r_query2", !.snap = QueryUrls, !.queue = IdSeq(DOMAIN tabs)]

\* chrome.tabs.update(tabId, {url: tabData.url})
RestoreUpdate(c) == [c EXCEPT !.pc = "r_update", !.ok = (c.tabId \in DOMAIN tabs)]

\* the tab the first loop stops at: suspended.html with the url parameter given
UrlMatches(c, t) ==
  /\ c.snap[t].url # <<>>
  /\ StartsWith(c.snap[t].url, SuspendedUrl)
  /\ SearchParamUrl(c.snap[t].url) = c.url

\* a tab the fallback loop looks up
FallbackCandidate(c, t) ==
  c.snap[t].url # <<>> /\ StartsWith(c.snap[t].url, SuspendedUrl)

\* after the first chrome.tabs.query: the search by url parameter
RestoreAfterQuery1(h) ==
  /\ hs[h].pc = "r_query1"
  /\ LET c == hs[h]
         q == c.queue
         hits == {i \in 1..Len(q) : UrlMatches(c, q[i])}
     IN IF hits = {}
        THEN hs' = [hs EXCEPT ![h] = FallbackQuery(c)]
        ELSE LET i == CHOOSE k \in hits : \A m \in hits : k <= m
             IN hs' = [hs EXCEPT ![h] =
                         [c EXCEPT !.pc = "r_get", !.tabId = q[i],
                                   !.data = GetTabData(q[i])]]
  /\ UNCHANGED <<tabs, local, suspendedTabs, tabActivity, othervars>>

\* after getTabData of the resolved tabId: fallback, or chrome.tabs.update
RestoreAfterGet(h) ==
  /\ hs[h].pc = "r_get"
  /\ LET c == hs[h]
     IN IF c.data = <<>>
        THEN /\ hs' = [hs EXCEPT ![h] = FallbackQuery(c)]
             /\ UNCHANGED tabs
        ELSE /\ tabs' = TabsUpdate(c.tabId, c.data[1].url)
             /\ hs' = [hs EXCEPT ![h] = RestoreUpdate(c)]
  /\ UNCHANGED <<local, suspendedTabs, tabActivity, othervars>>

\* the fallback loop from the tabs left in c.queue up to its next getTabData
FallbackLoop(c) ==
  LET q == c.queue
      hits == {i \in 1..Len(q) : FallbackCandidate(c, q[i])}
  IN IF hits = {} THEN IdleH
     ELSE LET i == CHOOSE k \in hits : \A m \in hits : k <= m
          IN [c EXCEPT !.pc = "r_fb", !.tabId = q[i], !.data = GetTabData(q[i]),
                       !.queue = SubSeq(q, i + 1, Len(q))]

\* after the fallback's chrome.tabs.query
RestoreAfterQuery2(h) ==
  /\ hs[h].pc = "r_query2"
  /\ hs' = [hs EXCEPT ![h] = FallbackLoop(hs[h])]
  /\ UNCHANGED <<tabs, local, suspendedTabs, tabActivity, othervars>>

\* after a getTabData of the fallback loop: break, or the next tab
RestoreAfterFallbackGet(h) ==
  /\ hs[h].pc = "r_fb"
  /\ LET c == hs[h]
     IN IF c.data = <<>>
        THEN /\ hs' = [hs EXCEPT ![h] = FallbackLoop(c)]
             /\ UNCHANGED tabs
        ELSE /\ tabs' = TabsUpdate(c.tabId, c.data[1].url)
             /\ hs' = [hs EXCEPT ![h] = RestoreUpdate(c)]
  /\ UNCHANGED <<local, suspendedTabs, tabActivity, othervars>>

\* after chrome.tabs.update: suspendedTabs.delete, clearTabData
RestoreAfterUpdate(h, removed) ==
  /\ hs[h].pc = "r_update"
  /\ LET c == hs[h]
     IN IF ~c.ok
        THEN /\ hs' = [hs EXCEPT ![h] = IdleH]
             /\ UNCHANGED <<suspendedTabs, local>>
        ELSE /\ suspendedTabs' = suspendedTabs \ {c.tabId}
             /\ local' = IF removed THEN Remove(local, c.tabId) ELSE local
             /\ hs' = [hs EXCEPT ![h] = [c EXCEPT !.pc = "r_clear", !.ok = removed]]
  /\ UNCHANGED <<tabs, tabActivity, othervars>>

\* mutant: restoreTab without its final updateTabActivity
RestoreAfterClear_NoActivity(h) ==
  /\ hs[h].pc = "r_clear"
  /\ hs' = [hs EXCEPT ![h] = IdleH]
  /\ UNCHANGED <<tabs, local, suspendedTabs, tabActivity, othervars>>

\* after clearTabData: updateTabActivity
RestoreAfterClear(h) ==
  /\ hs[h].pc = "r_clear"
  /\ tabActivity' = IF hs[h].ok THEN Put(tabActivity, hs[h].tabId, now)
                    ELSE tabActivity
  /\ hs' = [hs EXCEPT ![h] = IdleH]
  /\ UNCHANGED <<tabs, local, suspendedTabs, othervars>>

(* --------------------------- browser events --------------------------- *)
\* a tab becomes the active tab of the window: both onActivated listeners
\* (updateTabActivity; restoreTab up to its first await when the tab is in
\* suspendedTabs), from the registry tbs
OnActivated(t, tbs) ==
  /\ tabs' = [k \in DOMAIN tbs |->
                [tbs[k] EXCEPT !.active = (k = t),
                               !.lastAccessed = IF k = t THEN now ELSE @]]
  /\ tabActivity' = IF tabListeners THEN Put(tabActivity, t, now) ELSE tabActivity
  /\ IF tabListeners /\ t \in suspendedTabs
     THEN /\ HasFree
          /\ hs' = [hs EXCEPT ![FreeSlot] = RestoreStart(t, <<>>)]
     ELSE UNCHANGED hs

ActivateTab(t) ==
  /\ t \in DOMAIN tabs
  /\ ~tabs[t].active
  /\ OnActivated(t, tabs)
  /\ UNCHANGED <<local, suspendedTabs, othervars>>

\* the user closes a tab; the browser activates another tab when the closed
\* one was active (onRemoved only recomputes the badge)
CloseTab(t) ==
  /\ t \in DOMAIN tabs
  /\ LET rest == Remove(tabs, t)
     IN IF tabs[t].active /\ DOMAIN rest # {}
        THEN \E n \in DOMAIN rest : OnActivated(n, rest)
        ELSE tabs' = rest /\ UNCHANGED <<tabActivity, hs>>
  /\ UNCHANGED <<local, suspendedTabs, othervars>>

\* the user navigates the tab in front of them
NavigateTab(t, u) ==
  /\ t \in DOMAIN tabs
  /\ tabs[t].active
  /\ tabs[t].url # u
  /\ tabs' = TabsUpdate(t, u)
  /\ UNCHANGED <<local, suspendedTabs, tabActivity, hs, othervars>>

\* onUpdated with status complete: a page finished loading
TabComplete(t) ==
  /\ tabListeners
  /\ t \in DOMAIN tabs
  /\ tabs[t].active
  /\ tabActivity' = Put(tabActivity, t, now)
  /\ UNCHANGED <<tabs, local, suspendedTabs, hs, othervars>>

\* the user pins or unpins a tab
PinTab(t) ==
  /\ t \in DOMAIN tabs
  /\ tabs' = [tabs EXCEPT ![t].pinned = ~@]
  /\ UNCHANGED <<local, suspendedTabs, tabActivity, hs, othervars>>

\* a minute passes, at most n minutes after the start
Tick(n) ==
  /\ now < StartTime + n * MsPerMinute
  /\ now' = now + MsPerMinute
  /\ UNCHANGED <<tabs, local, localSessions, syncSettings, suspendedTabs,
                 tabActivity, settings, sessions, tabListeners, alarmListeners, hs>>

(* ----------------------- the scheduler's scans ------------------------- *)
\* suspendInactiveTabs up to await chrome.tabs.query
ScanStart ==
  [IdleH EXCEPT !.op = "scan", !.pc = "sc_query", !.now = now,
                !.thr = settings.suspendAfterMinutes * 60 * 1000,
                !.snap = tabs, !.queue = IdSeq(DOMAIN tabs)]

\* hs with n more scans started, in the first n free slots
StartScans(n) ==
  [h \in Handlers |->
     IF ~Busy(h) /\ Cardinality({g \in Handlers : g < h /\ ~Busy(g)}) < n
     THEN ScanStart ELSE hs[h]]

\* the checkInactiveTabs alarm fires: every registered onAlarm listener calls
\* suspendInactiveTabs, which returns at once when autoSuspend is off
AlarmFire ==
  /\ alarmListeners > 0
  /\ settings.autoSuspend
  /\ Cardinality({h \in Handlers : ~Busy(h)}) >= alarmListeners
  /\ hs' = StartScans(alarmListeners)
  /\ UNCHANGED <<tabs, local, suspendedTabs, tabActivity, othervars>>

\* after chrome.tabs.query: the for loop
ScanAfterQuery(h) ==
  /\ hs[h].pc = "sc_query"
  /\ hs' = [hs EXCEPT ![h] = ScanLoop(hs[h], suspendedTabs, tabActivity, tabs)]
  /\ UNCHANGED <<tabs, local, suspendedTabs, tabActivity, othervars>>

(* ------------------------------ histories ----------------------------- *)
Snap == [tabs |-> tabs, local |-> local, suspendedTabs |-> suspendedTabs,
         tabActivity |-> tabActivity]

NoSnap == [tabs |-> <<>>, local |-> <<>>, suspendedTabs |-> {}, tabActivity |-> <<>>]

Call(op, id, url) ==
  [op |-> op, id |-> id, url |-> url, t0 |-> now,
   u0 |-> IF id \in DOMAIN tabs THEN tabs[id].url ELSE <<>>]

\* a call starts: it is the last of the (at most two) calls remembered
Started(c) ==
  /\ calls' = IF calls = <<>> THEN <<c>> ELSE <<calls[Len(calls)], c>>
  /\ pre' = Snap

Forget == calls' = <<>> /\ pre' = NoSnap

NoHistory == UNCHANGED <<calls, pre>>

(* ------------------------------ the states ---------------------------- *)
DefaultSettings ==
  [suspendAfterMinutes |-> DefaultSuspendAfterMinutes, autoSuspend |-> TRUE,
   maxTabsBeforeWarning |-> DefaultMaxTabsBeforeWarning]

WebUrls == {UrlA, UrlB}

Tab(u, a, la) ==
  [url |-> u, title |-> TitleOf(u), active |-> a, pinned |-> FALSE, lastAccessed |-> la]

\* the worker has started on a fresh profile (nothing stored, init done,
\* its initial scan over) with the tabs tbs open
StartedWith(tbs) ==
  /\ tabs = tbs
  /\ local = <<>>
  /\ localSessions = <<>>
  /\ syncSettings = <<>>
  /\ suspendedTabs = {}
  /\ tabActivity = <<>>
  /\ settings = DefaultSettings
  /\ sessions = <<>>
  /\ tabListeners = TRUE
  /\ alarmListeners = 1
  /\ now = StartTime
  /\ hs = [h \in Handlers |-> IdleH]
  /\ calls = <<>>
  /\ pre = NoSnap

\* ... where the tabs in opened were last used at time la
Started0(opened, la) ==
  StartedWith([t \in opened |-> Tab(IF t % 2 = 1 THEN UrlA ELSE UrlB, t = 1, la[t])])

Init == Started0(TabIds, [t \in TabIds |-> StartTime])

\* a step of a suspendTab call in flight; the write to the store may fail
SuspendStep(h, ok) ==
  \/ SuspendAfterGet(h)
  \/ SuspendAfterUpdate(h, ok)
  \/ SuspendAfterSave(h)

\* a step of a restoreTab call in flight; the removal from the store may fail
RestoreStep(h, ok) ==
  \/ RestoreAfterQuery1(h)
  \/ RestoreAfterGet(h)
  \/ RestoreAfterQuery2(h)
  \/ RestoreAfterFallbackGet(h)
  \/ RestoreAfterUpdate(h, ok)
  \/ RestoreAfterClear(h)

\* Spec: suspendTab and restoreTab messages, tab activation and closure arrive
\* at any time, also while other calls are in flight; store writes may fail
Next ==
  \/ \E t \in TabIds : MsgSuspendTab(t) /\ NoHistory
  \/ \E t \in TabIds : MsgRestoreTabId(t) /\ NoHistory
  \/ \E t \in TabIds : ActivateTab(t) /\ NoHistory
  \/ \E t \in TabIds : CloseTab(t) /\ NoHistory
  \/ \E h \in Handlers, ok \in BOOLEAN : SuspendStep(h, ok) /\ NoHistory
  \/ \E h \in Handlers, ok \in BOOLEAN : RestoreStep(h, ok) /\ NoHistory

Spec == Init /\ [][Next]_vars

(* ---------------------------------------------------------------------- *)
\* a suspendTab or restoreTab call is in flight for tab t
InProgress(t) ==
  \E h \in Handlers : Busy(h) /\ (hs[h].tabId = t \/ hs[h].id = t)

\* C1: whenever no suspendTab or restoreTab call is in progress for a tab,
\* the tab is in suspendedTabs if and only if its record suspendedTab_<id>
\* is persisted, whatever messages, activations, closures and store failures
\* came before
C1_SetMirrorsRecords ==
  \A t \in TabIds : ~InProgress(t) => (t \in suspendedTabs <=> t \in DOMAIN local)

\* C5: when a suspendTab call that navigated the tab and wrote its record
\* returns, the tab (if still open) shows the placeholder and the record
\* keyed by its id holds the original URL and title, also when other calls
\* ran between its awaits
C5_SuspendedWhenDone ==
  [][\A h \in Handlers :
       (/\ hs[h].pc = "s_save"
        /\ hs[h].ok
        /\ hs'[h].pc # "s_save"
        /\ hs[h].tabId \in DOMAIN tabs')
       => LET t == hs[h].tabId
          IN /\ IsPlaceholder(tabs'[t].url)
             /\ t \in DOMAIN local'
             /\ local'[t].url = hs[h].data[1].url
             /\ local'[t].title = hs[h].data[1].title]_vars

(* --------------------- one call at a time: SpecSeq --------------------- *)
\* the tabs were last used 16 minutes before the worker started
InitSeq == Started0(TabIds, [t \in TabIds |-> StartTime - 16 * MsPerMinute])

\* the alarm's scan, remembered as a call
SeqScan == AlarmFire /\ Started(Call("scan", 0, <<>>))

\* SpecSeq: every call runs to completion before the next message, alarm or
\* browser event arrives; no chrome.* call fails
NextSeq ==
  \/ \E t \in TabIds : AllIdle /\ MsgSuspendTab(t) /\ Started(Call("suspend", t, <<>>))
  \/ \E t \in TabIds : AllIdle /\ MsgRestoreTabId(t) /\ Started(Call("restore", t, <<>>))
  \/ \E u \in WebUrls : AllIdle /\ MsgRestoreTabUrl(u) /\ Started(Call("restore", 0, u))
  \/ AllIdle /\ SeqScan
  \/ \E t \in TabIds : AllIdle /\ ActivateTab(t) /\ Forget
  \/ \E t \in TabIds : AllIdle /\ CloseTab(t) /\ Forget
  \/ \E t \in TabIds, u \in WebUrls : AllIdle /\ NavigateTab(t, u) /\ Forget
  \/ AllIdle /\ Tick(SeqTicks) /\ NoHistory
  \/ \E h \in Handlers : SuspendStep(h, TRUE) /\ NoHistory
  \/ \E h \in Handlers : RestoreStep(h, TRUE) /\ NoHistory
  \/ \E h \in Handlers : ScanAfterQuery(h) /\ NoHistory

SpecSeq == InitSeq /\ [][NextSeq]_vars

\* the last call started has returned and nothing happened since
Done == AllIdle /\ calls # <<>>

LastCall == calls[Len(calls)]

Shows(ts, t) == IF t \in DOMAIN ts THEN ts[t].url ELSE <<"closed">>

SameUrls(ts, us) == \A t \in TabIds : Shows(ts, t) = Shows(us, t)

\* the last call was restoreTab(tabId) for a tab with no persisted record
\* that did not show the placeholder
RestoredUnsuspended ==
  /\ Done
  /\ LastCall.op = "restore"
  /\ LastCall.id # 0
  /\ LastCall.id \notin DOMAIN pre.local
  /\ ~IsPlaceholder(Shows(pre.tabs, LastCall.id))

\* C2: restoreTab(tabId) for a tab that is not suspended navigates no tab and
\* leaves suspendedTabs, the persisted records and the activity map as they
\* were, whatever other tabs are suspended
C2_RestoreUnsuspendedNoOp ==
  RestoredUnsuspended =>
    /\ SameUrls(tabs, pre.tabs)
    /\ suspendedTabs = pre.suspendedTabs
    /\ local = pre.local
    /\ tabActivity = pre.tabActivity

\* the last two calls were restoreTab with the same argument
RestoredTwice ==
  /\ Done
  /\ Len(calls) = 2
  /\ calls[1].op = "restore" /\ calls[2].op = "restore"
  /\ calls[1].id = calls[2].id /\ calls[1].url = calls[2].url

\* C3: a second restoreTab(x) right after a first one navigates no tab and
\* deletes no record: tab URLs, suspendedTabs and records stay as the first
\* call left them
C3_RestoreIdempotent ==
  RestoredTwice =>
    /\ SameUrls(tabs, pre.tabs)
    /\ suspendedTabs = pre.suspendedTabs
    /\ local = pre.local

\* tab t was in suspendedTabs with a persisted record when the last call,
\* a suspendTab(t) message or a scan, started
SuspendedAgain(t) ==
  /\ Done
  /\ \/ LastCall.op = "suspend" /\ LastCall.id = t
     \/ LastCall.op = "scan"
  /\ t \in pre.suspendedTabs
  /\ t \in DOMAIN pre.local

\* what a no-op suspension leaves alone: the tab's URL, its membership (for
\* the message: the whole set) and its record with url and suspendedAt
LeftSuspended(t) ==
  /\ Shows(tabs, t) = Shows(pre.tabs, t)
  /\ t \in suspendedTabs
  /\ LastCall.op = "suspend" => suspendedTabs = pre.suspendedTabs
  /\ t \in DOMAIN local
  /\ local[t] = pre.local[t]

\* C4 as claimed: suspending a tab that is in suspendedTabs with a persisted
\* record, by message or by scan, changes nothing of it
C4_SuspendSuspendedNoOp ==
  \A t \in TabIds : SuspendedAgain(t) => LeftSuspended(t)

\* C4 amended: ... provided the tab still shows the placeholder page (or is
\* closed)
C4_SuspendPlaceholderNoOp ==
  \A t \in TabIds :
    (SuspendedAgain(t) /\ (t \in DOMAIN pre.tabs => IsPlaceholder(pre.tabs[t].url)))
      => LeftSuspended(t)

C4_Witness ==
  \E t \in TabIds :
    /\ SuspendedAgain(t)
    /\ LastCall.op = "suspend"
    /\ IsPlaceholder(Shows(pre.tabs, t))

\* the last two calls were suspendTab(t) of an open tab with a URL that is
\* not privileged, then restoreTab(t)
RoundTrip(t) ==
  /\ Done
  /\ Len(calls) = 2
  /\ calls[1].op = "suspend" /\ calls[1].id = t
  /\ calls[2].op = "restore" /\ calls[2].id = t
  /\ calls[1].u0 # <<>>
  /\ ~StartsWith(calls[1].u0, <<ChromeScheme>>)
  /\ ~StartsWith(calls[1].u0, <<ExtensionScheme>>)

\* C6: suspendTab(t) then restoreTab(t) brings the tab back to its URL,
\* takes t out of suspendedTabs, deletes its record and gives t an activity
\* timestamp taken during the restore
C6_RoundTrip ==
  \A t \in TabIds :
    RoundTrip(t) =>
      /\ Shows(tabs, t) = calls[1].u0
      /\ t \notin suspendedTabs
      /\ t \notin DOMAIN local
      /\ t \in DOMAIN tabActivity
      /\ tabActivity[t] >= calls[2].t0
      /\ tabActivity[t] <= now

C6_Witness == \E t \in TabIds : RoundTrip(t) /\ calls[2].t0 > calls[1].t0

(* ------------------- worker start and updateSettings ------------------- *)
\* { ...this.settings, ...patch }
Merge(s, patch) ==
  [f \in DOMAIN s \cup DOMAIN patch |-> IF f \in DOMAIN patch THEN patch[f] ELSE s[f]]

\* the constructor: init() up to await chrome.storage.sync.get in loadSettings
InitStart == [IdleH EXCEPT !.op = "init", !.pc = "i_settings", !.data = syncSettings]

\* setupAutoSuspend called by handler h: one more onAlarm listener and the
\* initial check, which runs up to its chrome.tabs.query
SetupAutoSuspend(h) ==
  IF settings.autoSuspend
  THEN /\ alarmListeners < MaxListeners
       /\ alarmListeners' = alarmListeners + 1
       /\ hs' = [hs EXCEPT ![h] = ScanStart]
  ELSE /\ UNCHANGED alarmListeners
       /\ hs' = [hs EXCEPT ![h] = IdleH]

\* after chrome.storage.sync.get: the stored settings over the current ones,
\* then loadSessions up to its chrome.storage.local.get
InitAfterSettings(h) ==
  /\ hs[h].pc = "i_settings"
  /\ settings' = IF hs[h].data # <<>> THEN Merge(settings, hs[h].data[1]) ELSE settings
  /\ hs' = [hs EXCEPT ![h] = [@ EXCEPT !.pc = "i_sessions", !.data = localSessions]]
  /\ UNCHANGED <<tabs, local, localSessions, syncSettings, suspendedTabs, tabActivity,
                 sessions, tabListeners, alarmListeners, now>>

\* after chrome.storage.local.get: the stored sessions, setupTabListeners,
\* setupAutoSuspend
InitAfterSessions(h) ==
  /\ hs[h].pc = "i_sessions"
  /\ sessions' = IF hs[h].data # <<>> THEN hs[h].data[1] ELSE sessions
  /\ tabListeners' = TRUE
  /\ SetupAutoSuspend(h)
  /\ UNCHANGED <<tabs, local, localSessions, syncSettings, suspendedTabs, tabActivity,
                 settings, now>>

\* the updateSettings message: the merge, then saveSettings up to its
\* chrome.storage.sync.set
UpdateSettings(newSettings) ==
  /\ HasFree
  /\ settings' = Merge(settings, newSettings)
  /\ syncSettings' = <<settings'>>
  /\ hs' = [hs EXCEPT ![FreeSlot] =
              [IdleH EXCEPT !.op = "settings", !.pc = "u_save", !.data = <<newSettings>>]]
  /\ UNCHANGED <<tabs, local, localSessions, suspendedTabs, tabActivity, sessions,
                 tabListeners, alarmListeners, now>>

\* after saveSettings: setupAutoSuspend when the message carried autoSuspend
UpdateAfterSave(h) ==
  /\ hs[h].pc = "u_save"
  /\ IF "autoSuspend" \in DOMAIN hs[h].data[1]
     THEN SetupAutoSuspend(h)
     ELSE hs' = [hs EXCEPT ![h] = IdleH] /\ UNCHANGED alarmListeners
  /\ UNCHANGED <<tabs, local, localSessions, syncSettings, suspendedTabs, tabActivity,
                 settings, sessions, tabListeners, now>>

InitStep(h) == InitAfterSettings(h) \/ InitAfterSessions(h)

(* ------------- the scheduler among other events: SpecSched ------------- *)
\* the worker has just been constructed (a browser or worker restart):
\* init() is waiting for the stored settings; the tabs were last used 16
\* minutes ago
Booted(stored) ==
  /\ tabs = [t \in TabIds |->
               Tab(IF t % 2 = 1 THEN UrlA ELSE UrlB, t = 1, StartTime - 16 * MsPerMinute)]
  /\ local = <<>>
  /\ localSessions = <<>>
  /\ syncSettings = stored
  /\ suspendedTabs = {}
  /\ tabActivity = <<>>
  /\ settings = DefaultSettings
  /\ sessions = <<>>
  /\ tabListeners = FALSE
  /\ alarmListeners = 0
  /\ now = StartTime
  /\ hs = [h \in Handlers |-> IF h = 1 THEN InitStart ELSE IdleH]
  /\ calls = <<>>
  /\ pre = NoSnap

\* nothing stored yet, or the settings an earlier updateSettings saved
InitSched == \E stored \in {<<>>, <<DefaultSettings>>} : Booted(stored)

\* the user turns autoSuspend off (remembered when it was on) or on again
TurnOff ==
  /\ UpdateSettings([autoSuspend |-> FALSE])
  /\ IF settings.autoSuspend THEN Started(Call("off", 0, <<>>)) ELSE NoHistory

TurnOn == UpdateSettings([autoSuspend |-> TRUE]) /\ Forget

\* SpecSched: the worker starts; settings messages and alarms arrive at any
\* time, also while init() or a scan is in flight
NextSched ==
  \/ \E h \in Handlers : InitStep(h) /\ NoHistory
  \/ TurnOff
  \/ TurnOn
  \/ \E h \in Handlers : UpdateAfterSave(h) /\ NoHistory
  \/ AlarmFire /\ NoHistory
  \/ \E h \in Handlers : ScanAfterQuery(h) /\ NoHistory
  \/ \E h \in Handlers : SuspendStep(h, TRUE) /\ NoHistory
  \/ Tick(SeqTicks) /\ NoHistory

SpecSched == InitSched /\ [][NextSched]_vars

\* SpecScan: the started worker's scans, while the user pins, activates and
\* navigates tabs
NextScan ==
  \/ AlarmFire /\ NoHistory
  \/ \E h \in Handlers : ScanAfterQuery(h) /\ NoHistory
  \/ \E h \in Handlers : SuspendStep(h, TRUE) /\ NoHistory
  \/ \E h \in Handlers : RestoreStep(h, TRUE) /\ NoHistory
  \/ \E t \in TabIds : PinTab(t) /\ NoHistory
  \/ \E t \in TabIds : ActivateTab(t) /\ NoHistory
  \/ \E t \in TabIds : NavigateTab(t, UrlChrome) /\ NoHistory

SpecScan == InitSeq /\ [][NextScan]_vars

\* the scan in slot h navigates its tab to the placeholder in this step
ScanNavigates(h) ==
  /\ hs[h].op = "scan"
  /\ hs[h].pc = "s_get"
  /\ hs'[h].pc = "s_update"
  /\ hs'[h].ok

\* C7: when a scan navigates a tab to the placeholder, that tab is at that
\* moment not pinned, not the active tab and not on a chrome:// or
\* chrome-extension:// URL
C7_ScanSparesExcluded ==
  [][\A h \in Handlers :
       ScanNavigates(h) =>
         LET tab == tabs[hs[h].tabId]
         IN /\ ~tab.pinned
            /\ ~tab.active
            /\ ~StartsWith(tab.url, <<ChromeScheme>>)
            /\ ~StartsWith(tab.url, <<ExtensionScheme>>)]_vars

\* the last settings message turned autoSuspend from true to false
UserDisabled == calls # <<>> /\ LastCall.op = "off"

\* C9: once updateSettings has turned autoSuspend from true to false, and
\* until it is turned on again, no scan that starts later navigates a tab to
\* the placeholder
C9_NoScanSuspendsWhenOff ==
  [][\A h \in Handlers :
       ~(ScanNavigates(h) /\ UserDisabled /\ hs[h].now > LastCall.t0)]_vars

(* ------------------- the inactivity threshold: SpecThr ----------------- *)
\* the started worker; each tab was last used 14, 15 or 16 minutes ago, or
\* carries no lastAccessed (0); background tabs may have no URL yet
InitThr ==
  \E la \in [TabIds -> {0} \cup {StartTime - m * MsPerMinute :
                                  m \in (DefaultSuspendAfterMinutes - 1)
                                        ..(DefaultSuspendAfterMinutes + 1)}],
     blank \in SUBSET (TabIds \ {1}) :
    StartedWith([t \in TabIds |->
                   Tab(IF t \in blank THEN <<>> ELSE IF t % 2 = 1 THEN UrlA ELSE UrlB,
                       t = 1, la[t])])

\* SpecThr: scans run one at a time between the user's activating and pinning
\* tabs, pages finishing to load and the user setting suspendAfterMinutes;
\* the clock also advances while a scan runs
NextThr ==
  \/ AllIdle /\ SeqScan
  \/ \E t \in TabIds : AllIdle /\ ActivateTab(t) /\ Forget
  \/ \E t \in TabIds : AllIdle /\ PinTab(t) /\ Forget
  \/ \E t \in TabIds : AllIdle /\ TabComplete(t) /\ Forget
  \/ \E m \in {1, DefaultSuspendAfterMinutes} :
       AllIdle /\ UpdateSettings([suspendAfterMinutes |-> m]) /\ Forget
  \/ \E h \in Handlers : UpdateAfterSave(h) /\ NoHistory
  \/ Tick(MaxTicks) /\ NoHistory
  \/ \E h \in Handlers : ScanAfterQuery(h) /\ NoHistory
  \/ \E h \in Handlers : SuspendStep(h, TRUE) /\ NoHistory
  \/ \E h \in Handlers : RestoreStep(h, TRUE) /\ NoHistory

SpecThr == InitThr /\ [][NextThr]_vars

\* the last call was a scan and it has run to its end
ScanDone == Done /\ LastCall.op = "scan"

\* tab t was excluded when the scan started: suspended, active, pinned or on
\* a privileged URL
Excluded(t) ==
  \/ t \in pre.suspendedTabs
  \/ pre.tabs[t].active
  \/ pre.tabs[t].pinned
  \/ StartsWith(pre.tabs[t].url, <<ChromeScheme>>)
  \/ StartsWith(pre.tabs[t].url, <<ExtensionScheme>>)

\* the tracked timestamp, or lastAccessed when none is tracked (0: neither)
LastActiveAtStart(t) ==
  IF t \in DOMAIN pre.tabActivity THEN pre.tabActivity[t] ELSE pre.tabs[t].lastAccessed

\* the scan suspended t: placeholder shown, member of the set, record stored
SuspendedByScan(t) ==
  /\ t \notin pre.suspendedTabs
  /\ t \in suspendedTabs
  /\ t \in DOMAIN local
  /\ IsPlaceholder(tabs[t].url)
  /\ local[t].url = pre.tabs[t].url

\* C8 as claimed: a scan suspends a tab that is not excluded exactly when the
\* time of the scan's start minus the tab's last activity is strictly
\* greater than suspendAfterMinutes * 60000
C8_ThresholdStrict ==
  ScanDone =>
    \A t \in DOMAIN pre.tabs :
      ~Excluded(t) =>
        (SuspendedByScan(t) <=>
           LastCall.t0 - LastActiveAtStart(t) > settings.suspendAfterMinutes * 60000)

\* C8 amended: ... a tab that is not excluded and has a URL ...; a tab
\* without a URL is not suspended however long it has been inactive
C8_ThresholdStrictWithUrl ==
  ScanDone =>
    \A t \in DOMAIN pre.tabs :
      ~Excluded(t) =>
        (SuspendedByScan(t) <=>
           /\ pre.tabs[t].url # <<>>
           /\ LastCall.t0 - LastActiveAtStart(t) > settings.suspendAfterMinutes * 60000)

\* a scan has spared a tab that was inactive for exactly the threshold
C8_Witness ==
  /\ ScanDone
  /\ \E t \in DOMAIN pre.tabs :
       /\ ~Excluded(t)
       /\ pre.tabs[t].url # <<>>
       /\ LastCall.t0 - LastActiveAtStart(t) = settings.suspendAfterMinutes * 60000
       /\ t \notin suspendedTabs

(* ------------------------- sessions: SpecSess -------------------------- *)
\* Date.now().toString(): a string, never equal to a number
toString(n) == <<"str", n>>

\* tabs.map(...).filter(tab => tab.url && !tab.url.startsWith('chrome://'))
\* over the query result snap, in tab order
RECURSIVE SessionTabs(_, _)
SessionTabs(snap, q) ==
  IF q = <<>> THEN <<>>
  ELSE LET tab == snap[Head(q)]
           rest == SessionTabs(snap, Tail(q))
       IN IF tab.url # <<>> /\ ~StartsWith(tab.url, <<ChromeScheme>>)
          THEN <<[url |-> tab.url, title |-> tab.title]>> \o rest
          ELSE rest

\* mutant: the cap drops the newest entry instead of the oldest
KeepNewest_DropsHead(list) ==
  IF Len(list) > MaxSessions THEN SubSeq(list, 2, MaxSessions + 1) ELSE list

\* if (this.sessions.length > 50) this.sessions = this.sessions.slice(0, 50)
KeepNewest(list) ==
  IF Len(list) > MaxSessions THEN SubSeq(list, 1, MaxSessions) ELSE list

\* mutant: the filter keeps the session asked for instead of the others
WithoutId_KeepsIt(list, sessionId) == SelectSeq(list, LAMBDA x : x.id = sessionId)

\* this.sessions.filter(s => s.id !== sessionId)
WithoutId(list, sessionId) == SelectSeq(list, LAMBDA x : x.id # sessionId)

\* the saveSession message (the caller names the session): saveCurrentSession
\* up to await chrome.tabs.query
MsgSaveSession(name) ==
  /\ HasFree
  /\ hs' = [hs EXCEPT ![FreeSlot] =
              [IdleH EXCEPT !.op = "save", !.pc = "v_query", !.data = <<name>>,
                            !.snap = [t \in DOMAIN tabs |->
                                        [url |-> tabs[t].url, title |-> tabs[t].title]],
                            !.queue = IdSeq(DOMAIN tabs)]]
  /\ UNCHANGED <<tabs, local, suspendedTabs, tabActivity, othervars>>

\* after chrome.tabs.query: the session, unshift, the cap, saveSessions up to
\* its chrome.storage.local.set, which writes the list or rejects
SaveAfterQuery(h, stored) ==
  /\ hs[h].pc = "v_query"
  /\ LET c == hs[h]
         session == [id |-> toString(now), name |-> c.data[1], createdAt |-> now,
                     tabs |-> SessionTabs(c.snap, c.queue)]
     IN /\ sessions' = KeepNewest(<<session>> \o sessions)
        /\ localSessions' = IF stored THEN <<sessions'>> ELSE localSessions
        /\ hs' = [hs EXCEPT ![h] = [c EXCEPT !.pc = "v_save", !.snap = <<>>,
                                             !.queue = <<>>, !.ok = stored]]
  /\ UNCHANGED <<tabs, local, syncSettings, suspendedTabs, tabActivity, settings,
                 tabListeners, alarmListeners, now>>

\* after saveSessions: saveCurrentSession returns
SaveAfterSave(h) ==
  /\ hs[h].pc = "v_save"
  /\ hs' = [hs EXCEPT ![h] = IdleH]
  /\ UNCHANGED <<tabs, local, suspendedTabs, tabActivity, othervars>>

\* the deleteSession message: the filter, saveSessions up to its
\* chrome.storage.local.set, which writes the list or rejects
MsgDeleteSession(sessionId, stored) ==
  /\ HasFree
  /\ sessions' = WithoutId(sessions, sessionId)
  /\ localSessions' = IF stored THEN <<sessions'>> ELSE localSessions
  /\ hs' = [hs EXCEPT ![FreeSlot] =
              [IdleH EXCEPT !.op = "delete", !.pc = "d_save", !.data = <<sessionId>>,
                            !.ok = stored]]
  /\ UNCHANGED <<tabs, local, syncSettings, suspendedTabs, tabActivity, settings,
                 tabListeners, alarmListeners, now>>

\* after saveSessions: deleteSession returns
DeleteAfterSave(h) ==
  /\ hs[h].pc = "d_save"
  /\ hs' = [hs EXCEPT ![h] = IdleH]
  /\ UNCHANGED <<tabs, local, suspendedTabs, tabActivity, othervars>>

SessionStep(h, stored) ==
  SaveAfterQuery(h, stored) \/ SaveAfterSave(h) \/ DeleteAfterSave(h)

\* the k-th newest of the sessions stored before the worker started
StoredSession(k) ==
  [id |-> toString(StartTime - k), name |-> 0 - k, createdAt |-> StartTime - k,
   tabs |-> <<[url |-> UrlA, title |-> TitleOf(UrlA)]>>]

\* the started worker with the stored list loaded
Loaded(list) ==
  /\ tabs = [t \in TabIds |-> Tab(IF t % 2 = 1 THEN UrlA ELSE UrlB, t = 1, StartTime)]
  /\ local = <<>>
  /\ localSessions = <<list>>
  /\ syncSettings = <<>>
  /\ suspendedTabs = {}
  /\ tabActivity = <<>>
  /\ settings = DefaultSettings
  /\ sessions = list
  /\ tabListeners = TRUE
  /\ alarmListeners = 1
  /\ now = StartTime
  /\ hs = [h \in Handlers |-> IdleH]
  /\ calls = <<>>
  /\ pre = NoSnap

\* no session stored, or as many as the cap allows
InitSess ==
  \E n \in {0, MaxSessions} : Loaded([k \in 1..n |-> StoredSession(k)])

\* history: saves so far, saves since the last delete, deletes so far
Saved == IF calls = <<>> THEN 0 ELSE calls[1].saved

SavedInARow == IF calls = <<>> THEN 0 ELSE calls[1].run

Deleted == IF calls = <<>> THEN 0 ELSE calls[1].deleted

SaveStarted ==
  /\ calls' = <<[op |-> "save", saved |-> Saved + 1, run |-> SavedInARow + 1,
                 deleted |-> Deleted, t0 |-> now]>>
  /\ pre' = NoSnap

DeleteStarted ==
  /\ calls' = <<[op |-> "delete", saved |-> Saved, run |-> 0, deleted |-> Deleted + 1,
                 t0 |-> now]>>
  /\ pre' = NoSnap

\* the clock has advanced since the last message
LaterThanLastCall == IF calls = <<>> THEN TRUE ELSE now > calls[1].t0

\* the ids a deleteSession message carries: the newest, the oldest, or none
\* of the list
DeleteIds ==
  {toString(0)} \cup
  (IF sessions = <<>> THEN {} ELSE {sessions[1].id, sessions[Len(sessions)].id})

\* SpecSess: saveSession and deleteSession messages one after the other (the
\* n-th save names its session n); a minute passes after a message at the
\* latest when the next save comes
NextSess ==
  \/ /\ AllIdle /\ Saved < MaxSaves /\ LaterThanLastCall
     /\ MsgSaveSession(Saved + 1) /\ SaveStarted
  \/ \E sessionId \in DeleteIds :
       AllIdle /\ Deleted < MaxDeletes /\ MsgDeleteSession(sessionId, TRUE)
       /\ DeleteStarted
  \/ AllIdle /\ ~LaterThanLastCall /\ Tick(MaxSaves + MaxDeletes) /\ NoHistory
  \/ \E h \in Handlers : SessionStep(h, TRUE) /\ NoHistory

SpecSess == InitSess /\ [][NextSess]_vars

\* at most 50 entries, a later-saved session before every earlier-saved one
CapAndOrder ==
  /\ Len(sessions) <= MaxSessions
  /\ \A i \in 1..(Len(sessions) - 1) :
       /\ sessions[i].name > sessions[i + 1].name
       /\ sessions[i].createdAt >= sessions[i + 1].createdAt

\* after 51 saves in a row the list is exactly the 50 newest of them
FiftyNewest ==
  (AllIdle /\ SavedInARow >= MaxSessions + 1) =>
    /\ Len(sessions) = MaxSessions
    /\ \A i \in 1..MaxSessions : sessions[i].name = Saved - i + 1

\* a save puts the new session in front; at the cap it drops the last entry
\* and nothing else, below the cap it drops nothing
EvictsOldest ==
  \A h \in Handlers :
    (hs[h].pc = "v_query" /\ hs'[h].pc = "v_save") =>
      /\ sessions'[1].name = hs[h].data[1]
      /\ sessions'[1].createdAt = now
      /\ Len(sessions') = IF Len(sessions) = MaxSessions THEN MaxSessions
                          ELSE Len(sessions) + 1
      /\ \A i \in 2..Len(sessions') : sessions'[i] = sessions[i - 1]

\* C10: through any sequence of saveCurrentSession and deleteSession calls
\* from a list of at most 50 sessions, the list keeps at most 50 entries,
\* newest-saved first; a save at 50 evicts exactly the oldest entry; 51 saves
\* in a row leave exactly the 50 newest
C10_SessionCap == [](CapAndOrder /\ FiftyNewest) /\ [][EvictsOldest]_vars

\* 51 saves in a row have returned
C10_Witness == AllIdle /\ SavedInARow = MaxSessions + 1 /\ Len(sessions) = MaxSessions

(* ------------------- requests and responses: SpecMsg ------------------- *)
\* getMemoryInfo's estimate from tabs.length and this.suspendedTabs.size
\* (Math.round of an integer is that integer)
MemoryInfo(total, suspendedCount) ==
  LET activeCount == total - suspendedCount
  IN [activeTabs |-> activeCount,
      suspendedTabs |-> suspendedCount,
      totalTabs |-> total,
      estimatedMemoryMB |-> (activeCount * 50) + (suspendedCount * 1),
      savedMemoryMB |-> suspendedCount * 49]

\* the getMemoryInfo message: getMemoryInfo up to await chrome.tabs.query
MsgGetMemoryInfo ==
  /\ HasFree
  /\ hs' = [hs EXCEPT ![FreeSlot] =
              [IdleH EXCEPT !.op = "memory", !.pc = "m_query",
                            !.queue = IdSeq(DOMAIN tabs)]]
  /\ UNCHANGED <<tabs, local, suspendedTabs, tabActivity, othervars>>

\* what getMemoryInfo returns once chrome.tabs.query has resolved
MemoryResult(h) == MemoryInfo(Len(hs[h].queue), Cardinality(suspendedTabs))

\* after chrome.tabs.query: the counts, the estimate, return
MemoryAfterQuery(h) ==
  /\ hs[h].pc = "m_query"
  /\ hs' = [hs EXCEPT ![h] = IdleH]
  /\ UNCHANGED <<tabs, local, suspendedTabs, tabActivity, othervars>>

\* history of the last request: its action and argument, the session
\* sequence when it arrived, the responses sent so far
Request(action, arg) ==
  /\ calls' = <<[op |-> action, arg |-> arg, list |-> sessions, responses |-> <<>>]>>
  /\ pre' = NoSnap

\* sendResponse(r) of the request in flight
sendResponse(r) ==
  /\ calls' = <<[calls[1] EXCEPT !.responses = Append(@, r)]>>
  /\ UNCHANGED pre

\* the call awaited by the listener returns in this step of slot h: the
\* listener sends r (calls started by browser events have no listener)
Reply(h, r) ==
  IF calls # <<>> /\ hs'[h].op = "idle" THEN sendResponse(r) ELSE NoHistory

\* a case of the listener with no await before its sendResponse
Answer(action, r) ==
  /\ calls' = <<[op |-> action, arg |-> <<>>, list |-> sessions, responses |-> <<r>>]>>
  /\ pre' = NoSnap
  /\ UNCHANGED <<tabs, local, localSessions, syncSettings, suspendedTabs, tabActivity,
                 settings, sessions, tabListeners, alarmListeners, now, hs>>

\* the step of saveCurrentSession or deleteSession after saveSessions: a
\* rejected write is thrown out of the listener's async function, past its
\* sendResponse
SessionReturn(h) ==
  /\ SaveAfterSave(h) \/ DeleteAfterSave(h)
  /\ IF hs[h].ok THEN Reply(h, [success |-> TRUE]) ELSE NoHistory

\* SpecMsg: the requests of the popup arrive one after the other on a
\* started worker while the clock advances; writes of the session list may
\* fail
NextMsg ==
  \/ \E t \in TabIds : AllIdle /\ MsgSuspendTab(t) /\ Request("suspendTab", t)
  \/ /\ AllIdle /\ Len(sessions) < MsgSaves
     /\ MsgSaveSession(1) /\ Request("saveSession", 1)
  \/ \E sessionId \in DeleteIds, ok \in BOOLEAN :
       /\ AllIdle /\ MsgDeleteSession(sessionId, ok)
       /\ Request("deleteSession", [sessionId |-> sessionId, stored |-> ok])
  \/ AllIdle /\ MsgGetMemoryInfo /\ Request("getMemoryInfo", <<>>)
  \/ /\ AllIdle /\ UpdateSettings([suspendAfterMinutes |-> 1])
     /\ Request("updateSettings", [suspendAfterMinutes |-> 1])
  \/ AllIdle /\ Answer("getSessions", [sessions |-> sessions])
  \/ AllIdle /\ Answer("getSettings", [settings |-> settings])
  \/ AllIdle /\ Answer("unknown", [error |-> "Unknown action"])
  \/ \E h \in Handlers : SuspendStep(h, TRUE) /\ Reply(h, [success |-> TRUE])
  \/ \E h \in Handlers, ok \in BOOLEAN : SaveAfterQuery(h, ok) /\ NoHistory
  \/ \E h \in Handlers : SessionReturn(h)
  \/ \E h \in Handlers : MemoryAfterQuery(h) /\ Reply(h, [memoryInfo |-> MemoryResult(h)])
  \/ \E h \in Handlers : UpdateAfterSave(h) /\ Reply(h, [success |-> TRUE])
  \/ AllIdle /\ Tick(SeqTicks) /\ NoHistory

SpecMsg == Init /\ [][NextMsg]_vars

\* the last request was deleteSession with an id that no session of the
\* list had
DeletedUnknown ==
  /\ calls # <<>>
  /\ LastCall.op = "deleteSession"
  /\ \A i \in 1..Len(LastCall.list) : LastCall.list[i].id # LastCall.arg.sessionId

\* C11: deleteSession with an id that matches no session leaves the session
\* sequence as it was, content and order, and (its write of the list not
\* failing) the message is answered with success: true
C11_DeleteUnknownNoOp ==
  DeletedUnknown =>
    /\ sessions = LastCall.list
    /\ (AllIdle /\ LastCall.arg.stored) => LastCall.responses = <<[success |-> TRUE]>>

\* an unknown id was deleted from a list that holds sessions, and answered
C11_Witness ==
  /\ DeletedUnknown
  /\ AllIdle
  /\ LastCall.arg.stored
  /\ LastCall.list # <<>>

\* C12: a request whose handling has come to its end has got exactly one
\* response (and never more than one before), also when a store call failed;
\* the response to an unknown action carries an error field
C12_OneResponse ==
  calls # <<>> =>
    /\ Len(LastCall.responses) <= 1
    /\ AllIdle => Len(LastCall.responses) = 1
    /\ (AllIdle /\ LastCall.op = "unknown") => "error" \in DOMAIN LastCall.responses[1]

\* no URL, chrome:// or chrome-extension://
PrivilegedOrMissing(u) ==
  \/ u = <<>>
  \/ StartsWith(u, <<ChromeScheme>>)
  \/ StartsWith(u, <<ExtensionScheme>>)

\* C14: the session that saveCurrentSession creates has no entry without a
\* URL or on a chrome:// or chrome-extension:// URL, and has every other tab
\* of the window, in tab order
C14_SessionSkipsPrivileged ==
  [][\A h \in Handlers :
       (hs[h].pc = "v_query" /\ hs'[h].pc = "v_save") =>
         LET kept == SelectSeq(hs[h].queue,
                               LAMBDA t : ~PrivilegedOrMissing(hs[h].snap[t].url))
             saved == sessions'[1].tabs
         IN /\ Len(saved) = Len(kept)
            /\ \A i \in 1..Len(saved) : saved[i].url = hs[h].snap[kept[i]].url]_vars

\* C15: no two sessions of the list have the same id
C15_UniqueIds ==
  \A i, j \in 1..Len(sessions) : i # j => sessions[i].id # sessions[j].id

(* ---------------- failing store and registry calls: SpecFail ----------- *)
\* SpecFail: suspendTab and restoreTab messages one after the other, between
\* the user's closing tabs; a write to or removal from the store may fail,
\* and chrome.tabs.get and chrome.tabs.update fail for a closed tab
NextFail ==
  \/ \E t \in TabIds : AllIdle /\ MsgSuspendTab(t) /\ Started(Call("suspend", t, <<>>))
  \/ \E t \in TabIds : AllIdle /\ MsgRestoreTabId(t) /\ Started(Call("restore", t, <<>>))
  \/ \E t \in TabIds : AllIdle /\ CloseTab(t) /\ Forget
  \/ \E h \in Handlers, ok \in BOOLEAN : SuspendStep(h, ok) /\ NoHistory
  \/ \E h \in Handlers, ok \in BOOLEAN : RestoreStep(h, ok) /\ NoHistory

SpecFail == Init /\ [][NextFail]_vars

\* the call in slot h, started by a message, ends in this step, in its catch
FailedReturn(h) ==
  /\ calls # <<>>
  /\ hs[h].pc \in {"s_update", "s_save", "r_update", "r_clear"}
  /\ ~hs[h].ok
  /\ hs'[h].op = "idle"

\* the persisted record of tab t in store st, <<>> when there is none
Record(st, t) == IF t \in DOMAIN st THEN <<st[t]>> ELSE <<>>

\* C13: when suspendTab or restoreTab ends because a store or tab-registry
\* call failed, the tab it worked on shows the URL it showed when the call
\* started, and its membership in suspendedTabs and its persisted record
\* are as they were then
C13_FailureKeepsPriorState ==
  [][\A h \in Handlers :
       FailedReturn(h) =>
         LET t == hs[h].tabId
         IN /\ Shows(tabs', t) = Shows(pre.tabs, t)
            /\ (t \in suspendedTabs') = (t \in pre.suspendedTabs)
            /\ Record(local', t) = Record(pre.local, t)]_vars

(* ------------------- counts and tracking: SpecTabs --------------------- *)
\* SpecTabs: suspendTab, restoreTab and getMemoryInfo messages one after the
\* other, between the user's activating and closing tabs and pages finishing
\* to load; no chrome.* call fails for an open tab
NextTabs ==
  \/ \E t \in TabIds : AllIdle /\ MsgSuspendTab(t) /\ Started(Call("suspend", t, <<>>))
  \/ \E t \in TabIds : AllIdle /\ MsgRestoreTabId(t) /\ Started(Call("restore", t, <<>>))
  \/ AllIdle /\ MsgGetMemoryInfo /\ Started(Call("memory", 0, <<>>))
  \/ \E t \in TabIds : AllIdle /\ ActivateTab(t) /\ Forget
  \/ \E t \in TabIds : AllIdle /\ CloseTab(t) /\ Forget
  \/ \E t \in TabIds : AllIdle /\ TabComplete(t) /\ Forget
  \/ \E h \in Handlers : SuspendStep(h, TRUE) /\ NoHistory
  \/ \E h \in Handlers : RestoreStep(h, TRUE) /\ NoHistory
  \/ \E h \in Handlers : MemoryAfterQuery(h) /\ NoHistory

SpecTabs == Init /\ [][NextTabs]_vars

\* the open tabs that show the placeholder page, and those that do not
OpenSuspended == {t \in DOMAIN tabs : IsPlaceholder(tabs[t].url)}

OpenActive == {t \in DOMAIN tabs : ~IsPlaceholder(tabs[t].url)}

\* C16: with a open tabs that are not suspended and s open tabs that are,
\* getMemoryInfo returns activeTabs a, suspendedTabs s, totalTabs a + s,
\* estimatedMemoryMB 50 * a + s and savedMemoryMB 49 * s
C16_MemoryInfoCounts ==
  [][\A h \in Handlers :
       (hs[h].pc = "m_query" /\ hs'[h].op = "idle") =>
         LET a == Cardinality(OpenActive)
             s == Cardinality(OpenSuspended)
         IN MemoryResult(h) = [activeTabs |-> a,
                               suspendedTabs |-> s,
                               totalTabs |-> a + s,
                               estimatedMemoryMB |-> 50 * a + s,
                               savedMemoryMB |-> 49 * s]]_vars

\* C17: while no call is in flight, no tabId is both in the activity map and
\* in suspendedTabs
C17_TrackedOrSuspended ==
  AllIdle => \A t \in TabIds : ~(t \in DOMAIN tabActivity /\ t \in suspendedTabs)

(* ------------------- restoreTab's target: SpecSeq ---------------------- *)
\* the tabs that, when the last call started, showed the placeholder with
\* original-URL parameter u and had a persisted record
ShowedSuspended(u) ==
  {t \in DOMAIN pre.tabs : /\ IsPlaceholder(pre.tabs[t].url)
                           /\ SearchParamUrl(pre.tabs[t].url) = u
                           /\ t \in DOMAIN pre.local}

\* the tabs the last call navigated
Navigated == {t \in TabIds : Shows(tabs, t) # Shows(pre.tabs, t)}

\* C18: restoreTab given an original URL u restores a tab that shows the
\* placeholder for u whenever such a tab with a persisted record exists, and
\* then restores no tab whose original URL differs from u
C18_RestoreByUrl ==
  (Done /\ LastCall.op = "restore" /\ LastCall.id = 0) =>
    LET matching == ShowedSuspended(LastCall.url)
    IN matching # {} =>
         /\ Navigated \cap matching # {}
         /\ Navigated \subseteq matching

\* the call in slot h is a restoreTab that issues its chrome.tabs.update for
\* an open tab in this step
RestoreNavigates(h) ==
  /\ hs[h].op = "restore"
  /\ hs[h].pc \in {"r_get", "r_fb"}
  /\ hs'[h].pc = "r_update"
  /\ hs[h].tabId \in DOMAIN tabs

\* C19: restoreTab navigates a tab only if that tab is showing the
\* placeholder page at that moment
C19_RestoreOnlyPlaceholder ==
  [][\A h \in Handlers :
       RestoreNavigates(h) => IsPlaceholder(tabs[hs[h].tabId].url)]_vars

(* --------------- messages during the startup load: SpecBoot ------------ *)
\* the sessions in the store when the worker starts
BootSessions == 2

\* saveSession messages looked at
BootSaves == 2

StoredList == [k \in 1..BootSessions |-> StoredSession(k)]

\* the worker has just been constructed with sessions in the store and
\* autoSuspend saved as off: init() is waiting for the stored settings
InitBoot ==
  /\ tabs = [t \in TabIds |-> Tab(IF t % 2 = 1 THEN UrlA ELSE UrlB, t = 1, StartTime)]
  /\ local = <<>>
  /\ localSessions = <<StoredList>>
  /\ syncSettings = <<[autoSuspend |-> FALSE]>>
  /\ suspendedTabs = {}
  /\ tabActivity = <<>>
  /\ settings = DefaultSettings
  /\ sessions = <<>>
  /\ tabListeners = FALSE
  /\ alarmListeners = 0
  /\ now = StartTime
  /\ hs = [h \in Handlers |-> IF h = 1 THEN InitStart ELSE IdleH]
  /\ calls = <<>>
  /\ pre = NoSnap

\* history: the saveSession messages so far and the ids deleteSession
\* messages have named
BootSaved == IF calls = <<>> THEN 0 ELSE calls[1].saved

BootDeleted == IF calls = <<>> THEN {} ELSE calls[1].deleted

BootMessage(saved, deleted) ==
  /\ calls' = <<[op |-> "message", saved |-> saved, deleted |-> deleted]>>
  /\ pre' = NoSnap

\* the ids a deleteSession message carries: the newest stored one, or none
BootDeleteIds == {StoredSession(1).id, toString(0)}

\* SpecBoot: the worker starts; saveSession and deleteSession messages arrive
\* at any time, also while init() is waiting for the store
NextBoot ==
  \/ \E h \in Handlers : InitStep(h) /\ NoHistory
  \/ /\ BootSaved < BootSaves
     /\ MsgSaveSession(BootSaved + 1)
     /\ BootMessage(BootSaved + 1, BootDeleted)
  \/ \E sessionId \in BootDeleteIds \ BootDeleted :
       /\ MsgDeleteSession(sessionId, TRUE)
       /\ BootMessage(BootSaved, BootDeleted \cup {sessionId})
  \/ \E h \in Handlers : SessionStep(h, TRUE) /\ NoHistory

SpecBoot == InitBoot /\ [][NextBoot]_vars

\* the list in the store
Persisted == IF localSessions = <<>> THEN <<>> ELSE localSessions[1]

\* C20: a session stored before the worker started stays in the stored list
\* unless a deleteSession message named it, whenever messages are handled
C20_StartupKeepsSessions ==
  \A k \in 1..BootSessions :
    StoredSession(k).id \notin BootDeleted =>
      \E i \in DOMAIN Persisted : Persisted[i] = StoredSession(k)

(* ------------------- scans per alarm firing: SpecSched ----------------- *)
\* the slots in which this step starts a scan from an onAlarm listener (the
\* initial check of setupAutoSuspend runs in the slot of its caller)
ScansStartedByAlarm == {h \in Handlers : ~Busy(h) /\ hs'[h].op = "scan"}

\* C21: after any sequence of updateSettings calls, one firing of the
\* checkInactiveTabs alarm starts at most one scan
C21_OneScanPerAlarm == [][Cardinality(ScansStartedByAlarm) <= 1]_vars

(* ------------- activation after a restart: SpecLive -------------------- *)
\* the record suspendTab stored for tab t when it showed url
TabData(t, url) ==
  [id |-> t, url |-> url, title |-> TitleOf(url), suspendedAt |-> StartTime - MsPerMinute]

\* the URL tab t opened with
OpenedUrl(t) == IF t % 2 = 1 THEN UrlA ELSE UrlB

\* the background process has just been started again: the tabs in earlier
\* were suspended by the process before it, so they show the placeholder and
\* their records are in the store, while suspendedTabs is the constructor's
\* empty set; init() is waiting for the stored settings
Restarted(earlier) ==
  /\ tabs = [t \in TabIds |->
               Tab(IF t \in earlier
                   THEN PlaceholderUrl(OpenedUrl(t), TitleOf(OpenedUrl(t)))
                   ELSE OpenedUrl(t),
                   t = 1, StartTime)]
  /\ local = [t \in earlier |-> TabData(t, OpenedUrl(t))]
  /\ localSessions = <<>>
  /\ syncSettings = <<>>
  /\ suspendedTabs = {}
  /\ tabActivity = <<>>
  /\ settings = DefaultSettings
  /\ sessions = <<>>
  /\ tabListeners = FALSE
  /\ alarmListeners = 0
  /\ now = StartTime
  /\ hs = [h \in Handlers |-> IF h = 1 THEN InitStart ELSE IdleH]
  /\ calls = <<>>
  /\ pre = NoSnap

InitLive == \E earlier \in SUBSET TabIds : Restarted(earlier)

\* the user activates tab t; remembered when the tab shows the placeholder
\* and has a record
ActivateSuspended(t) ==
  /\ ActivateTab(t)
  /\ IF IsPlaceholder(tabs[t].url) /\ t \in DOMAIN local
     THEN Started(Call("activate", t, <<>>))
     ELSE Forget

\* the steps of the calls in flight, none of which fails
HandlerStep ==
  \/ \E h \in Handlers : InitStep(h) /\ NoHistory
  \/ \E h \in Handlers : ScanAfterQuery(h) /\ NoHistory
  \/ \E h \in Handlers : SuspendStep(h, TRUE) /\ NoHistory
  \/ \E h \in Handlers : RestoreStep(h, TRUE) /\ NoHistory

\* SpecLive: the process starts; then suspendTab messages and activations
\* arrive one after the other, each handled to its end
NextLive ==
  \/ HandlerStep
  \/ \E t \in TabIds : AllIdle /\ MsgSuspendTab(t) /\ Forget
  \/ \E t \in TabIds : AllIdle /\ ActivateSuspended(t)

\* every call in flight is resumed: the event loop runs each settled await
SpecLive == InitLive /\ [][NextLive]_vars /\ WF_vars(HandlerStep)

\* the last event was the activation of a tab showing the placeholder
ActivatedSuspended == calls # <<>> /\ LastCall.op = "activate"

\* that tab is restored: it shows its recorded URL, its record is gone and it
\* is not in suspendedTabs
RestoredAfterActivation ==
  /\ calls # <<>>
  /\ LastCall.op = "activate"
  /\ LET t == LastCall.id
     IN /\ Shows(tabs, t) = pre.local[t].url
        /\ t \notin DOMAIN local
        /\ t \notin suspendedTabs

\* C22: whenever a tab that shows the placeholder and has a persisted record
\* is activated, it is eventually restored, also when it was suspended before
\* a restart of the background process
C22_ActivationRestores == ActivatedSuspended ~> RestoredAfterActivation

====
